---- MODULE Spec2Model ----
(***************************************************************************)
(* A model of the bounded lock-free MPMC ring buffer of src/src/queue.rs   *)
(* (ArrayQueue: stamped slots, packed lap|index positions) and of the      *)
(* worker pool of src/src/lib.rs that consumes from it.                    *)
(*                                                                         *)
(* Every atomic access of the code (a load, a store, a compare-exchange)   *)
(* is one step of the calling thread; the steps of different threads       *)
(* interleave freely.  Atomics are read at their latest value: the SeqCst  *)
(* compare-exchanges on head and tail and the SeqCst fences before the     *)
(* full / empty confirmation are what the code relies on for this.         *)
(***************************************************************************)
EXTENDS Integers, Sequences, FiniteSets, TLC

(* ------------------------------ bounds -------------------------------- *)

\* capacity of the queue of the concurrent specifications
Cap == 2
\* total number of push calls of a concurrent run
MaxPush == 3
\* width of the machine word (usize) holding head, tail and the stamps
WordBits == 6
\* largest capacity of the sequential specification
MaxCap == 3
\* values pushed by the sequential specification are 1..MaxVal
MaxVal == 2

Producers == {1, 2}
Consumers == {3, 4}
\* a thread calling is_empty and is_full
Observers == {5}
Threads == Producers \cup Consumers \cup Observers

Word == 2 ^ WordBits

\* the contents of a slot holding no value (MaybeUninit::uninit, or moved out)
NoVal == 0
\* the k-th value pushed: every push call of a concurrent run carries its own
ValueOf(p, k) == 10 * k + p
ProducerOf(v) == v % 10
SeqNoOf(v) == v \div 10
\* no thread (the owner of an unlocked Mutex)
NoThread == 0
\* the jobs a run of the pool may submit
AllJobs == {ValueOf(p, k) : p \in Producers, k \in 1 .. MaxPush}

VARIABLES
    cap,        \* buffer.len()
    one_lap,    \* ArrayQueue.one_lap
    head,       \* ArrayQueue.head
    tail,       \* ArrayQueue.tail
    stamp,      \* buffer[i].stamp
    value,      \* buffer[i].value
    pc,         \* where each thread stands in its call
    pos,        \* the local `tail` of a push, the local `head` of a pop
    arg,        \* the value a push carries, the value a pop has read
    ret,        \* the result of the thread's last call: <<kind, value>>
    dropped,    \* the queue has been dropped
    destroyed,  \* the slot indices drop_in_place was called on, in order
    sent,       \* number of push calls started
    accepted,   \* values whose push returned Ok
    popped,     \* per thread, the values its pops returned, in order
    dirty,      \* the thread's current (or last) call has written shared state
    claimedPush,\* number of successful compare-exchanges on tail
    claimedPop, \* number of successful compare-exchanges on head
    drained,    \* a pop returned None after every producer had finished
    pushedAt,   \* the pairs <<position, value>> of the pushes that have written
    seen,       \* per observer, what held at some instant of its current
                \* (or last) call: head = tail, head + one_lap = tail, another
                \* thread inside a call
    ref,        \* the reference FIFO of the sequential specification
    running,    \* LockFreeThreadPool.running
    wpc,        \* where each worker thread stands in its loop
    runs,       \* how many times each job has been run to completion
    pool,       \* "live", or how far the pool's drop has come
    joined,     \* the workers drop has joined
    channel,    \* the jobs sent on the mpsc channel and not yet received
    sender,     \* ThreadPool.sender is Some: the Sender has not been dropped
    mutex       \* the worker holding the Mutex around the Receiver, or NoThread

qvars == <<cap, one_lap, head, tail, stamp, value>>
shared == <<head, tail, stamp, value>>
tvars == <<pc, pos, arg, ret>>
hvars == <<sent, accepted, popped, dirty, claimedPush, claimedPop, drained,
           pushedAt, seen>>
pvars == <<running, wpc, runs, pool, joined>>
bvars == <<channel, sender, mutex>>
vars == <<cap, one_lap, head, tail, stamp, value, pc, pos, arg, ret,
          dropped, destroyed, sent, accepted, popped, dirty,
          claimedPush, claimedPop, drained, pushedAt, seen, ref,
          running, wpc, runs, pool, joined, channel, sender, mutex>>

(* --------------------------- position space --------------------------- *)

RECURSIVE PowerOfTwoFrom(_, _)
PowerOfTwoFrom(n, p) == IF p >= n THEN p ELSE PowerOfTwoFrom(n, 2 * p)

\* usize::next_power_of_two
next_power_of_two(n) == PowerOfTwoFrom(n, 1)

\* mutant: the sum is not reduced modulo the word
AddUnreduced(a, b) == a + b

\* usize::wrapping_add
wrapping_add(a, b) == (a + b) % Word

\* pos & (one_lap - 1)
Index(p) == p % one_lap

\* pos & !(one_lap - 1)
Lap(p) == p - (p % one_lap)

\* the position after `t` for a push
NextTail(t) ==
    IF Index(t) + 1 < cap THEN t + 1 ELSE wrapping_add(Lap(t), one_lap)

\* mutant: the head is incremented past the last slot, into the gap of the lap
NextHeadIntoGap(h) == wrapping_add(h, 1)

\* the position after `h` for a pop
NextHead(h) ==
    IF Index(h) + 1 < cap THEN h + 1 ELSE wrapping_add(Lap(h), one_lap)

(* ------------------------------- new ---------------------------------- *)

\* mutant: one lap is the smallest power of two not below cap (cap, not cap + 1)
NewLapOfCap(c) ==
    /\ cap = c
    /\ one_lap = next_power_of_two(c)
    /\ head = 0
    /\ tail = 0
    /\ stamp = [i \in 0 .. c - 1 |-> i]
    /\ value = [i \in 0 .. c - 1 |-> NoVal]

\* ArrayQueue::new(c)
New(c) ==
    /\ cap = c
    /\ one_lap = next_power_of_two(c + 1)
    /\ head = 0
    /\ tail = 0
    /\ stamp = [i \in 0 .. c - 1 |-> i]
    /\ value = [i \in 0 .. c - 1 |-> NoVal]

\* threads that have made no call yet, and an empty history
NoCalls ==
    /\ pc = [t \in Threads |-> "idle"]
    /\ pos = [t \in Threads |-> 0]
    /\ arg = [t \in Threads |-> NoVal]
    /\ ret = [t \in Threads |-> <<"-", NoVal>>]
    /\ dropped = FALSE
    /\ destroyed = <<>>
    /\ sent = 0
    /\ accepted = {}
    /\ popped = [t \in Threads |-> <<>>]
    /\ dirty = [t \in Threads |-> FALSE]
    /\ claimedPush = 0
    /\ claimedPop = 0
    /\ drained = FALSE
    /\ pushedAt = {}
    /\ seen = [o \in Observers |-> [empty |-> FALSE, full |-> FALSE, busy |-> FALSE]]
    /\ ref = <<>>

\* no pool around the queue
NoPool ==
    /\ running = FALSE
    /\ wpc = [t \in Threads |-> "none"]
    /\ runs = [j \in AllJobs |-> 0]
    /\ pool = "none"
    /\ joined = {}

\* no channel, and so no blocking pool
NoChannel ==
    /\ channel = <<>>
    /\ sender = FALSE
    /\ mutex = NoThread

Init == New(Cap) /\ NoCalls /\ NoPool /\ NoChannel

(* ------------------------------- push --------------------------------- *)

\* push entered: `let mut tail = self.tail.load(Relaxed)`
PushStart(t, v) ==
    /\ pc[t] = "idle"
    /\ pc' = [pc EXCEPT ![t] = "push_stamp"]
    /\ pos' = [pos EXCEPT ![t] = tail]
    /\ arg' = [arg EXCEPT ![t] = v]
    /\ ret' = [ret EXCEPT ![t] = <<"-", NoVal>>]
    /\ UNCHANGED qvars

\* mutant: the stamp is not compared with the tail before the slot is claimed
PushBranchAnyStamp(tl, st) == "push_cas"

\* the branch of the loop body the loaded stamp selects
PushBranch(tl, st) ==
    IF tl = st THEN "push_cas"
    ELSE IF wrapping_add(st, one_lap) = tl + 1 THEN "push_head"
    ELSE "push_tail"

\* top of the loop: `slot.stamp.load(Acquire)` and the dispatch on it
PushLoadStamp(t) ==
    /\ pc[t] = "push_stamp"
    /\ pc' = [pc EXCEPT ![t] = PushBranch(pos[t], stamp[Index(pos[t])])]
    /\ UNCHANGED <<pos, arg, ret>>
    /\ UNCHANGED qvars

\* mutant: a plain store of next_tail where the code compares and exchanges
PushCasNoCompare(t) ==
    /\ pc[t] = "push_cas"
    /\ tail' = NextTail(pos[t])
    /\ pc' = [pc EXCEPT ![t] = "push_write"]
    /\ UNCHANGED <<pos, arg, ret>>
    /\ UNCHANGED <<cap, one_lap, head, stamp, value>>

\* `self.tail.compare_exchange_weak(tail, next_tail, SeqCst, Relaxed)`:
\* Ok when tail is still the local tail, Err(t) with the current tail otherwise
PushCas(t) ==
    /\ pc[t] = "push_cas"
    /\ IF tail = pos[t]
       THEN /\ tail' = NextTail(pos[t])
            /\ pc' = [pc EXCEPT ![t] = "push_write"]
            /\ pos' = pos
       ELSE /\ tail' = tail
            /\ pc' = [pc EXCEPT ![t] = "push_stamp"]
            /\ pos' = [pos EXCEPT ![t] = tail]
    /\ UNCHANGED <<arg, ret>>
    /\ UNCHANGED <<cap, one_lap, head, stamp, value>>

\* compare_exchange_weak may fail although tail is the local tail
PushCasSpurious(t) ==
    /\ pc[t] = "push_cas"
    /\ tail = pos[t]
    /\ pc' = [pc EXCEPT ![t] = "push_stamp"]
    /\ UNCHANGED <<pos, arg, ret>>
    /\ UNCHANGED qvars

\* `ptr::write(slot.value, value)` into the claimed slot
PushWrite(t) ==
    /\ pc[t] = "push_write"
    /\ value' = [value EXCEPT ![Index(pos[t])] = arg[t]]
    /\ pc' = [pc EXCEPT ![t] = "push_store"]
    /\ UNCHANGED <<pos, arg, ret>>
    /\ UNCHANGED <<cap, one_lap, head, tail, stamp>>

\* mutant: the stamp stored after the write is the tail itself, not tail + 1
PushStoreStampOfTail(t) ==
    /\ pc[t] = "push_store"
    /\ stamp' = [stamp EXCEPT ![Index(pos[t])] = pos[t]]
    /\ pc' = [pc EXCEPT ![t] = "idle"]
    /\ ret' = [ret EXCEPT ![t] = <<"Ok", NoVal>>]
    /\ UNCHANGED <<pos, arg>>
    /\ UNCHANGED <<cap, one_lap, head, tail, value>>

\* `slot.stamp.store(tail + 1, Release); return Ok(())`
PushStoreStamp(t) ==
    /\ pc[t] = "push_store"
    /\ stamp' = [stamp EXCEPT ![Index(pos[t])] = pos[t] + 1]
    /\ pc' = [pc EXCEPT ![t] = "idle"]
    /\ ret' = [ret EXCEPT ![t] = <<"Ok", NoVal>>]
    /\ UNCHANGED <<pos, arg>>
    /\ UNCHANGED <<cap, one_lap, head, tail, value>>

\* mutant: a slot one lap behind is taken for a full queue, head unread
PushSeesFullNoHead(h, tl) == TRUE

\* `head.wrapping_add(self.one_lap) == tail`
PushSeesFull(h, tl) == wrapping_add(h, one_lap) = tl

\* mutant: the refusing path has already moved the tail over the slot
PushLoadHeadMovesTail(t) ==
    /\ pc[t] = "push_head"
    /\ IF wrapping_add(head, one_lap) = pos[t]
       THEN /\ pc' = [pc EXCEPT ![t] = "idle"]
            /\ ret' = [ret EXCEPT ![t] = <<"Err", arg[t]>>]
            /\ tail' = NextTail(pos[t])
       ELSE /\ pc' = [pc EXCEPT ![t] = "push_tail"]
            /\ ret' = ret
            /\ tail' = tail
    /\ UNCHANGED <<pos, arg>>
    /\ UNCHANGED <<cap, one_lap, head, stamp, value>>

\* mutant: a push that finds the queue full spins until there is room
PushLoadHeadWaits(t) ==
    /\ pc[t] = "push_head"
    /\ pc' = [pc EXCEPT ![t] = "push_tail"]
    /\ UNCHANGED <<pos, arg, ret>>
    /\ UNCHANGED qvars

\* fence(SeqCst); `self.head.load(Relaxed)`; Err(value) when full, else spin
PushLoadHead(t) ==
    /\ pc[t] = "push_head"
    /\ IF PushSeesFull(head, pos[t])
       THEN /\ pc' = [pc EXCEPT ![t] = "idle"]
            /\ ret' = [ret EXCEPT ![t] = <<"Err", arg[t]>>]
       ELSE /\ pc' = [pc EXCEPT ![t] = "push_tail"]
            /\ ret' = ret
    /\ UNCHANGED <<pos, arg>>
    /\ UNCHANGED qvars

\* mutant: the loop retries with the tail it already had
PushReloadTailStale(t) ==
    /\ pc[t] = "push_tail"
    /\ pc' = [pc EXCEPT ![t] = "push_stamp"]
    /\ UNCHANGED <<pos, arg, ret>>
    /\ UNCHANGED qvars

\* after spin / snooze: `tail = self.tail.load(Relaxed)`
PushReloadTail(t) ==
    /\ pc[t] = "push_tail"
    /\ pos' = [pos EXCEPT ![t] = tail]
    /\ pc' = [pc EXCEPT ![t] = "push_stamp"]
    /\ UNCHANGED <<arg, ret>>
    /\ UNCHANGED qvars

(* -------------------------------- pop --------------------------------- *)

\* pop entered: `let mut head = self.head.load(Relaxed)`
PopStart(t) ==
    /\ pc[t] = "idle"
    /\ pc' = [pc EXCEPT ![t] = "pop_stamp"]
    /\ pos' = [pos EXCEPT ![t] = head]
    /\ arg' = [arg EXCEPT ![t] = NoVal]
    /\ ret' = [ret EXCEPT ![t] = <<"-", NoVal>>]
    /\ UNCHANGED qvars

\* mutant: the stamp is compared with the head by its index part alone
PopBranchAnyLap(h, st) ==
    IF Index(h) + 1 = Index(st) THEN "pop_cas"
    ELSE IF st = h THEN "pop_tail"
    ELSE "pop_head"

\* the branch of the loop body the loaded stamp selects
PopBranch(h, st) ==
    IF h + 1 = st THEN "pop_cas"
    ELSE IF st = h THEN "pop_tail"
    ELSE "pop_head"

\* top of the loop: `slot.stamp.load(Acquire)` and the dispatch on it
PopLoadStamp(t) ==
    /\ pc[t] = "pop_stamp"
    /\ pc' = [pc EXCEPT ![t] = PopBranch(pos[t], stamp[Index(pos[t])])]
    /\ UNCHANGED <<pos, arg, ret>>
    /\ UNCHANGED qvars

\* mutant: a plain store of next where the code compares and exchanges
PopCasNoCompare(t) ==
    /\ pc[t] = "pop_cas"
    /\ head' = NextHead(pos[t])
    /\ pc' = [pc EXCEPT ![t] = "pop_read"]
    /\ UNCHANGED <<pos, arg, ret>>
    /\ UNCHANGED <<cap, one_lap, tail, stamp, value>>

\* `self.head.compare_exchange_weak(head, next, SeqCst, Relaxed)`
PopCas(t) ==
    /\ pc[t] = "pop_cas"
    /\ IF head = pos[t]
       THEN /\ head' = NextHead(pos[t])
            /\ pc' = [pc EXCEPT ![t] = "pop_read"]
            /\ pos' = pos
       ELSE /\ head' = head
            /\ pc' = [pc EXCEPT ![t] = "pop_stamp"]
            /\ pos' = [pos EXCEPT ![t] = head]
    /\ UNCHANGED <<arg, ret>>
    /\ UNCHANGED <<cap, one_lap, tail, stamp, value>>

\* compare_exchange_weak may fail although head is the local head
PopCasSpurious(t) ==
    /\ pc[t] = "pop_cas"
    /\ head = pos[t]
    /\ pc' = [pc EXCEPT ![t] = "pop_stamp"]
    /\ UNCHANGED <<pos, arg, ret>>
    /\ UNCHANGED qvars

\* mutant: the slot is taken from the shared head, already advanced, instead
\* of the local head the compare-exchange won
PopReadAtSharedHead(t) ==
    /\ pc[t] = "pop_read"
    /\ arg' = [arg EXCEPT ![t] = value[Index(head)]]
    /\ value' = [value EXCEPT ![Index(head)] = NoVal]
    /\ pc' = [pc EXCEPT ![t] = "pop_store"]
    /\ UNCHANGED <<pos, ret>>
    /\ UNCHANGED <<cap, one_lap, head, tail, stamp>>

\* `ptr::read(slot.value)`: the value moves out of the slot
PopRead(t) ==
    /\ pc[t] = "pop_read"
    /\ arg' = [arg EXCEPT ![t] = value[Index(pos[t])]]
    /\ value' = [value EXCEPT ![Index(pos[t])] = NoVal]
    /\ pc' = [pc EXCEPT ![t] = "pop_store"]
    /\ UNCHANGED <<pos, ret>>
    /\ UNCHANGED <<cap, one_lap, head, tail, stamp>>

\* mutant: the stamp of the next lap is taken cap, not one_lap, further
PopStoreStampLapOfCap(t) ==
    /\ pc[t] = "pop_store"
    /\ stamp' = [stamp EXCEPT ![Index(pos[t])] = wrapping_add(pos[t], cap)]
    /\ pc' = [pc EXCEPT ![t] = "idle"]
    /\ ret' = [ret EXCEPT ![t] = <<"Some", arg[t]>>]
    /\ UNCHANGED <<pos, arg>>
    /\ UNCHANGED <<cap, one_lap, head, tail, value>>

\* `slot.stamp.store(head.wrapping_add(one_lap), Release); return Some(value)`
PopStoreStamp(t) ==
    /\ pc[t] = "pop_store"
    /\ stamp' = [stamp EXCEPT ![Index(pos[t])] = wrapping_add(pos[t], one_lap)]
    /\ pc' = [pc EXCEPT ![t] = "idle"]
    /\ ret' = [ret EXCEPT ![t] = <<"Some", arg[t]>>]
    /\ UNCHANGED <<pos, arg>>
    /\ UNCHANGED <<cap, one_lap, head, tail, value>>

\* mutant: an empty slot is taken for an empty queue, tail unread
PopSeesEmptyNoTail(tl, h) == TRUE

\* `tail == head`
PopSeesEmpty(tl, h) == tl = h

\* fence(SeqCst); `self.tail.load(Relaxed)`; None when empty, else spin
PopLoadTail(t) ==
    /\ pc[t] = "pop_tail"
    /\ IF PopSeesEmpty(tail, pos[t])
       THEN /\ pc' = [pc EXCEPT ![t] = "idle"]
            /\ ret' = [ret EXCEPT ![t] = <<"None", NoVal>>]
       ELSE /\ pc' = [pc EXCEPT ![t] = "pop_head"]
            /\ ret' = ret
    /\ UNCHANGED <<pos, arg>>
    /\ UNCHANGED qvars

\* after spin / snooze: `head = self.head.load(Relaxed)`
PopReloadHead(t) ==
    /\ pc[t] = "pop_head"
    /\ pos' = [pos EXCEPT ![t] = head]
    /\ pc' = [pc EXCEPT ![t] = "pop_stamp"]
    /\ UNCHANGED <<arg, ret>>
    /\ UNCHANGED qvars

(* ------------------------------- drop --------------------------------- *)

\* mutant: the wrapped length counts the lap, not the capacity
DropLenOverLap(h, tl) ==
    LET hix == Index(h)
        tix == Index(tl)
    IN  IF hix < tix THEN tix - hix
        ELSE IF hix > tix THEN one_lap - hix + tix
        ELSE IF tl = h THEN 0
        ELSE cap

\* the length Drop computes from the head and tail indices
DropLen(h, tl) ==
    LET hix == Index(h)
        tix == Index(tl)
    IN  IF hix < tix THEN tix - hix
        ELSE IF hix > tix THEN cap - hix + tix
        ELSE IF tl = h THEN 0
        ELSE cap

\* the slot the i-th iteration of Drop's loop destroys (i from 0)
DropIndex(h, i) ==
    LET hix == Index(h)
    IN  IF hix + i < cap THEN hix + i ELSE hix + i - cap

\* Drop for ArrayQueue (a payload with needs_drop): &mut self, so no call
\* is in progress
Drop ==
    /\ ~dropped
    /\ \A t \in Threads : pc[t] = "idle"
    /\ dropped' = TRUE
    /\ destroyed' = [i \in 1 .. DropLen(head, tail) |-> DropIndex(head, i - 1)]
    /\ UNCHANGED qvars
    /\ UNCHANGED tvars
    /\ UNCHANGED hvars
    /\ UNCHANGED ref
    /\ UNCHANGED bvars

(* ------------------------ history of a run ---------------------------- *)

Returns(t) == pc[t] # "idle" /\ pc'[t] = "idle"

ProducersFinished ==
    sent = MaxPush /\ \A p \in Producers : pc[p] = "idle"

InObservation(p) == p \in {"empty_second", "full_second"}

\* what the state a step leads to shows an observer inside a call
SeenNow(o) ==
    [empty |-> head' = tail',
     full  |-> wrapping_add(head', one_lap) = tail',
     busy  |-> \E u \in Threads \ {o} : pc'[u] # "idle"]

\* what a step of thread t adds to the history of the run
Observe(t) ==
    /\ seen' = [o \in Observers |->
                  IF ~InObservation(pc'[o]) THEN seen[o]
                  ELSE IF ~InObservation(pc[o]) THEN SeenNow(o)
                  ELSE [empty |-> seen[o].empty \/ SeenNow(o).empty,
                        full  |-> seen[o].full \/ SeenNow(o).full,
                        busy  |-> seen[o].busy \/ SeenNow(o).busy]]
    /\ sent' = IF pc[t] = "idle" /\ pc'[t] = "push_stamp" THEN sent + 1 ELSE sent
    /\ dirty' = [dirty EXCEPT ![t] =
                    (pc[t] # "idle" /\ dirty[t]) \/ (shared' # shared)]
    /\ accepted' = IF Returns(t) /\ ret'[t][1] = "Ok"
                   THEN accepted \cup {arg[t]} ELSE accepted
    /\ popped' = IF Returns(t) /\ ret'[t][1] = "Some"
                 THEN [popped EXCEPT ![t] = Append(@, ret'[t][2])] ELSE popped
    /\ claimedPush' = IF tail' # tail THEN claimedPush + 1 ELSE claimedPush
    /\ claimedPop' = IF head' # head THEN claimedPop + 1 ELSE claimedPop
    /\ drained' = (drained \/
                     (Returns(t) /\ ret'[t][1] = "None" /\ ProducersFinished))
    /\ pushedAt' = IF pc[t] = "push_write" /\ pc'[t] = "push_store"
                   THEN {pr \in pushedAt : pr[1] # pos[t]}
                            \cup {<<pos[t], arg[t]>>}
                   ELSE pushedAt

(* ------------------- concurrent pushes and pops ----------------------- *)

\* a step A of a call of thread t on the live queue
Call(t, A) ==
    /\ ~dropped
    /\ A
    /\ Observe(t)
    /\ UNCHANGED <<dropped, destroyed, ref>>
    /\ UNCHANGED bvars

Step(t, A) == Call(t, A) /\ UNCHANGED pvars

Next ==
    \/ \E t \in Producers :
          sent < MaxPush /\ Step(t, PushStart(t, ValueOf(t, sent + 1)))
    \/ \E t \in Producers : Step(t, PushLoadStamp(t))
    \/ \E t \in Producers : Step(t, PushCas(t))
    \/ \E t \in Producers : Step(t, PushCasSpurious(t))
    \/ \E t \in Producers : Step(t, PushWrite(t))
    \/ \E t \in Producers : Step(t, PushStoreStamp(t))
    \/ \E t \in Producers : Step(t, PushLoadHead(t))
    \/ \E t \in Producers : Step(t, PushReloadTail(t))
    \/ \E t \in Consumers : Step(t, PopStart(t))
    \/ \E t \in Consumers : Step(t, PopLoadStamp(t))
    \/ \E t \in Consumers : Step(t, PopCas(t))
    \/ \E t \in Consumers : Step(t, PopCasSpurious(t))
    \/ \E t \in Consumers : Step(t, PopRead(t))
    \/ \E t \in Consumers : Step(t, PopStoreStamp(t))
    \/ \E t \in Consumers : Step(t, PopLoadTail(t))
    \/ \E t \in Consumers : Step(t, PopReloadHead(t))
    \/ Drop /\ UNCHANGED pvars

Spec == Init /\ [][Next]_vars

(* ------------------- fairly scheduled calls --------------------------- *)

\* the steps of thread t inside a call, the spurious failure of its
\* compare-exchange apart
ThreadRuns(t) ==
    \/ Step(t, PushLoadStamp(t))
    \/ Step(t, PushCas(t))
    \/ Step(t, PushWrite(t))
    \/ Step(t, PushStoreStamp(t))
    \/ Step(t, PushLoadHead(t))
    \/ Step(t, PushReloadTail(t))
    \/ Step(t, PopLoadStamp(t))
    \/ Step(t, PopCas(t))
    \/ Step(t, PopRead(t))
    \/ Step(t, PopStoreStamp(t))
    \/ Step(t, PopLoadTail(t))
    \/ Step(t, PopReloadHead(t))

\* Every thread inside a call keeps being scheduled, and a
\* compare_exchange_weak does not fail spuriously for ever.  Nothing obliges
\* a thread to make a further call.
QueueFairness ==
    /\ \A t \in Producers \cup Consumers : WF_vars(ThreadRuns(t))
    /\ \A t \in Producers : SF_vars(Step(t, PushCas(t)))
    /\ \A t \in Consumers : SF_vars(Step(t, PopCas(t)))

FairSpec == Init /\ [][Next]_vars /\ QueueFairness

(* ---------------- is_empty and is_full beside the calls --------------- *)

\* the atomic a load reads
Load(name) == IF name = "head" THEN head ELSE tail

\* is_empty: `let head = self.head.load(SeqCst); let tail = self.tail.load(SeqCst)`
IsEmptyLoads == <<"head", "tail">>

\* mutant: is_full loads the head before the tail
IsFullLoadsHeadFirst == <<"head", "tail">>

\* is_full: `let tail = self.tail.load(SeqCst); let head = self.head.load(SeqCst)`
IsFullLoads == <<"tail", "head">>

\* the head and the tail among a first and a second load in the order loads
LoadedHead(loads, first, second) == IF loads[1] = "head" THEN first ELSE second
LoadedTail(loads, first, second) == IF loads[1] = "tail" THEN first ELSE second

\* is_empty entered: its first load
IsEmptyFirst(o) ==
    /\ pc[o] = "idle"
    /\ pc' = [pc EXCEPT ![o] = "empty_second"]
    /\ pos' = [pos EXCEPT ![o] = Load(IsEmptyLoads[1])]
    /\ arg' = [arg EXCEPT ![o] = NoVal]
    /\ ret' = [ret EXCEPT ![o] = <<"-", NoVal>>]
    /\ UNCHANGED qvars

\* its second load, and `tail == head`
IsEmptySecond(o) ==
    /\ pc[o] = "empty_second"
    /\ pc' = [pc EXCEPT ![o] = "idle"]
    /\ LET second == Load(IsEmptyLoads[2])
           h == LoadedHead(IsEmptyLoads, pos[o], second)
           tl == LoadedTail(IsEmptyLoads, pos[o], second)
       IN  ret' = [ret EXCEPT ![o] =
                     <<IF tl = h THEN "Empty" ELSE "NotEmpty", NoVal>>]
    /\ UNCHANGED <<pos, arg>>
    /\ UNCHANGED qvars

\* is_full entered: its first load
IsFullFirst(o) ==
    /\ pc[o] = "idle"
    /\ pc' = [pc EXCEPT ![o] = "full_second"]
    /\ pos' = [pos EXCEPT ![o] = Load(IsFullLoads[1])]
    /\ arg' = [arg EXCEPT ![o] = NoVal]
    /\ ret' = [ret EXCEPT ![o] = <<"-", NoVal>>]
    /\ UNCHANGED qvars

\* its second load, and `head.wrapping_add(self.one_lap) == tail`
IsFullSecond(o) ==
    /\ pc[o] = "full_second"
    /\ pc' = [pc EXCEPT ![o] = "idle"]
    /\ LET second == Load(IsFullLoads[2])
           h == LoadedHead(IsFullLoads, pos[o], second)
           tl == LoadedTail(IsFullLoads, pos[o], second)
       IN  ret' = [ret EXCEPT ![o] =
                     <<IF wrapping_add(h, one_lap) = tl THEN "Full" ELSE "NotFull",
                       NoVal>>]
    /\ UNCHANGED <<pos, arg>>
    /\ UNCHANGED qvars

\* the threads pushing and popping beside the observer
ObservedProducers == {1}
ObservedConsumers == {3}

ObservedNext ==
    \/ \E t \in ObservedProducers :
          sent < MaxPush /\ Step(t, PushStart(t, ValueOf(t, sent + 1)))
    \/ \E t \in ObservedProducers : Step(t, PushLoadStamp(t))
    \/ \E t \in ObservedProducers : Step(t, PushCas(t))
    \/ \E t \in ObservedProducers : Step(t, PushCasSpurious(t))
    \/ \E t \in ObservedProducers : Step(t, PushWrite(t))
    \/ \E t \in ObservedProducers : Step(t, PushStoreStamp(t))
    \/ \E t \in ObservedProducers : Step(t, PushLoadHead(t))
    \/ \E t \in ObservedProducers : Step(t, PushReloadTail(t))
    \/ \E t \in ObservedConsumers : Step(t, PopStart(t))
    \/ \E t \in ObservedConsumers : Step(t, PopLoadStamp(t))
    \/ \E t \in ObservedConsumers : Step(t, PopCas(t))
    \/ \E t \in ObservedConsumers : Step(t, PopCasSpurious(t))
    \/ \E t \in ObservedConsumers : Step(t, PopRead(t))
    \/ \E t \in ObservedConsumers : Step(t, PopStoreStamp(t))
    \/ \E t \in ObservedConsumers : Step(t, PopLoadTail(t))
    \/ \E t \in ObservedConsumers : Step(t, PopReloadHead(t))
    \/ \E o \in Observers : Step(o, IsEmptyFirst(o))
    \/ \E o \in Observers : Step(o, IsEmptySecond(o))
    \/ \E o \in Observers : Step(o, IsFullFirst(o))
    \/ \E o \in Observers : Step(o, IsFullSecond(o))

ObservedSpec == Init /\ [][ObservedNext]_vars

(* ------------- concurrent calls across the wrap of the word ----------- *)

\* the queue as ArrayQueue::new(c) followed by calls that filled and emptied
\* it L / one_lap times leave it: empty, head and tail at index 0 of lap L
NewAtLap(c, L) ==
    /\ cap = c
    /\ one_lap = next_power_of_two(c + 1)
    /\ head = L
    /\ tail = L
    /\ stamp = [i \in 0 .. c - 1 |-> L + i]
    /\ value = [i \in 0 .. c - 1 |-> NoVal]

\* the concurrent calls of Next start on the last lap the word can hold: the
\* cap + 1-th position claimed is on the lap that wraps to zero
WrapInit ==
    /\ NewAtLap(Cap, Word - next_power_of_two(Cap + 1))
    /\ NoCalls
    /\ NoPool
    /\ NoChannel

WrapSpec == WrapInit /\ [][Next]_vars

(* ------------- non-overlapping calls against a reference -------------- *)

\* the one thread of the sequential specification
SeqThread == CHOOSE t \in Threads : TRUE

SeqInit == (\E c \in 1 .. MaxCap : New(c)) /\ NoCalls /\ NoPool /\ NoChannel

InPush(t) == pc[t] \in {"push_stamp", "push_cas", "push_write", "push_store",
                        "push_head", "push_tail"}

\* what a bounded FIFO of capacity cap holding q answers to push(v)
RefPush(q, v) == IF Len(q) < cap THEN <<"Ok", NoVal>> ELSE <<"Err", v>>

\* what it holds after push(v)
RefAfterPush(q, v) == IF Len(q) < cap THEN Append(q, v) ELSE q

\* what it answers to pop
RefPop(q) == IF q = <<>> THEN <<"None", NoVal>> ELSE <<"Some", Head(q)>>

\* what it holds after pop
RefAfterPop(q) == IF q = <<>> THEN q ELSE Tail(q)

\* a step A of the only call in progress; when the call returns, the
\* reference FIFO is given the same call
SeqStep(t, A) ==
    /\ ~dropped
    /\ A
    /\ ref' = IF ~Returns(t) THEN ref
              ELSE IF InPush(t) THEN RefAfterPush(ref, arg[t])
              ELSE RefAfterPop(ref)
    /\ UNCHANGED <<dropped, destroyed>>
    /\ UNCHANGED hvars
    /\ UNCHANGED pvars
    /\ UNCHANGED bvars

\* in a call that overlaps no other the two reload arms of the loops
\* (PushReloadTail, PopReloadHead) are never reached
SeqNext ==
    \/ \E v \in 1 .. MaxVal : SeqStep(SeqThread, PushStart(SeqThread, v))
    \/ SeqStep(SeqThread, PushLoadStamp(SeqThread))
    \/ SeqStep(SeqThread, PushCas(SeqThread))
    \/ SeqStep(SeqThread, PushCasSpurious(SeqThread))
    \/ SeqStep(SeqThread, PushWrite(SeqThread))
    \/ SeqStep(SeqThread, PushStoreStamp(SeqThread))
    \/ SeqStep(SeqThread, PushLoadHead(SeqThread))
    \/ SeqStep(SeqThread, PopStart(SeqThread))
    \/ SeqStep(SeqThread, PopLoadStamp(SeqThread))
    \/ SeqStep(SeqThread, PopCas(SeqThread))
    \/ SeqStep(SeqThread, PopCasSpurious(SeqThread))
    \/ SeqStep(SeqThread, PopRead(SeqThread))
    \/ SeqStep(SeqThread, PopStoreStamp(SeqThread))
    \/ SeqStep(SeqThread, PopLoadTail(SeqThread))
    \/ Drop /\ UNCHANGED pvars

SeqSpec == SeqInit /\ [][SeqNext]_vars

(* --------------------------- the worker pool -------------------------- *)

\* the thread calling execute (the accept loop of main), and the pool's
\* worker threads
Submitters == {1}
Workers == Consumers

\* LockFreeThreadPool::new(size, queue_capacity): the queue, running = true,
\* and size workers spawned, each at the top of its loop
PoolInit ==
    /\ New(Cap)
    /\ NoCalls
    /\ running = TRUE
    /\ wpc = [t \in Threads |-> IF t \in Workers THEN "check" ELSE "none"]
    /\ runs = [j \in AllJobs |-> 0]
    /\ pool = "live"
    /\ joined = {}
    /\ NoChannel

\* execute(f): `let job = Box::new(f)` and the entry of job_queue.push(job)
Execute(t) ==
    /\ pool = "live"
    /\ sent < MaxPush
    /\ Step(t, PushStart(t, ValueOf(t, sent + 1)))

\* what execute returns for the result of the push
ExecuteResult(r) == IF r[1] = "Ok" THEN "Ok" ELSE "Err"

\* the steps of a submitter inside job_queue.push
SubmitterRuns(t) ==
    \/ Step(t, PushLoadStamp(t))
    \/ Step(t, PushCas(t))
    \/ Step(t, PushWrite(t))
    \/ Step(t, PushStoreStamp(t))
    \/ Step(t, PushLoadHead(t))
    \/ Step(t, PushReloadTail(t))

\* mutant: the loop condition is not evaluated (`loop`)
WorkerCheckAlways(w) ==
    /\ wpc[w] = "check"
    /\ wpc' = [wpc EXCEPT ![w] = "pop"]
    /\ UNCHANGED <<running, runs, pool, joined>>
    /\ UNCHANGED <<qvars, tvars, hvars, dropped, destroyed, ref, bvars>>

\* `while running.load(SeqCst)`: into the loop body, or out of the loop
WorkerCheck(w) ==
    /\ wpc[w] = "check"
    /\ wpc' = [wpc EXCEPT ![w] = IF running THEN "pop" ELSE "exit"]
    /\ UNCHANGED <<running, runs, pool, joined>>
    /\ UNCHANGED <<qvars, tvars, hvars, dropped, destroyed, ref, bvars>>

\* the entry of job_queue.pop()
WorkerPop(w) ==
    /\ wpc[w] = "pop"
    /\ Call(w, PopStart(w))
    /\ wpc' = [wpc EXCEPT ![w] = "popping"]
    /\ UNCHANGED <<running, runs, pool, joined>>

\* mutant: the None arm leaves the loop instead of yielding
WorkerMatchNoneExits(w) ==
    /\ wpc[w] = "popping"
    /\ pc[w] = "idle"
    /\ wpc' = [wpc EXCEPT ![w] = IF ret[w][1] = "Some" THEN "job" ELSE "exit"]
    /\ UNCHANGED <<running, runs, pool, joined>>
    /\ UNCHANGED <<qvars, tvars, hvars, dropped, destroyed, ref, bvars>>

\* mutant: a job popped after the shutdown signal is discarded, not invoked
WorkerMatchDiscards(w) ==
    /\ wpc[w] = "popping"
    /\ pc[w] = "idle"
    /\ wpc' = [wpc EXCEPT ![w] =
                  IF ret[w][1] = "Some" /\ running THEN "job" ELSE "check"]
    /\ UNCHANGED <<running, runs, pool, joined>>
    /\ UNCHANGED <<qvars, tvars, hvars, dropped, destroyed, ref, bvars>>

\* `match job_queue.pop()`: Some(job) => the job is invoked;
\* None => thread::yield_now() and back to the loop condition
WorkerMatch(w) ==
    /\ wpc[w] = "popping"
    /\ pc[w] = "idle"
    /\ wpc' = [wpc EXCEPT ![w] = IF ret[w][1] = "Some" THEN "job" ELSE "check"]
    /\ UNCHANGED <<running, runs, pool, joined>>
    /\ UNCHANGED <<qvars, tvars, hvars, dropped, destroyed, ref, bvars>>

\* `job()` returns: the job has run to completion
WorkerJobDone(w) ==
    /\ wpc[w] = "job"
    /\ runs' = [runs EXCEPT ![ret[w][2]] = @ + 1]
    /\ wpc' = [wpc EXCEPT ![w] = "check"]
    /\ UNCHANGED <<running, pool, joined>>
    /\ UNCHANGED <<qvars, tvars, hvars, dropped, destroyed, ref, bvars>>

\* the steps of a worker thread, the spurious failure of its
\* compare-exchange apart
WorkerRuns(w) ==
    \/ WorkerCheck(w)
    \/ WorkerPop(w)
    \/ Step(w, PopLoadStamp(w))
    \/ Step(w, PopCas(w))
    \/ Step(w, PopRead(w))
    \/ Step(w, PopStoreStamp(w))
    \/ Step(w, PopLoadTail(w))
    \/ Step(w, PopReloadHead(w))
    \/ WorkerMatch(w)
    \/ WorkerJobDone(w)

\* Drop for LockFreeThreadPool, first statement: running.store(false, SeqCst).
\* drop takes &mut self: no execute is in progress
PoolDrop ==
    /\ pool = "live"
    /\ \A t \in Submitters : pc[t] = "idle"
    /\ running' = FALSE
    /\ pool' = "joining"
    /\ UNCHANGED <<wpc, runs, joined>>
    /\ UNCHANGED <<qvars, tvars, hvars, dropped, destroyed, ref, bvars>>

\* the workers in the order of self.workers
NextToJoin == CHOOSE w \in Workers \ joined : \A x \in Workers \ joined : w <= x

\* mutant: the handle is dropped (the thread detached) instead of joined
PoolJoinDetaches ==
    /\ pool = "joining"
    /\ joined' = joined \cup {NextToJoin}
    /\ pool' = IF joined' = Workers THEN "joined" ELSE "joining"
    /\ UNCHANGED <<running, wpc, runs>>
    /\ UNCHANGED <<qvars, tvars, hvars, dropped, destroyed, ref, bvars>>

\* `thread.join().unwrap()` of the next worker returns once it has exited;
\* after the last one drop returns
PoolJoin ==
    /\ pool = "joining"
    /\ wpc[NextToJoin] = "exit"
    /\ joined' = joined \cup {NextToJoin}
    /\ pool' = IF joined' = Workers THEN "joined" ELSE "joining"
    /\ UNCHANGED <<running, wpc, runs>>
    /\ UNCHANGED <<qvars, tvars, hvars, dropped, destroyed, ref, bvars>>

\* the pool's fields are dropped: the last Arc of the queue goes, and with
\* it the queue
PoolDropQueue ==
    /\ pool = "joined"
    /\ Drop
    /\ UNCHANGED pvars

PoolNext ==
    \/ \E t \in Submitters : Execute(t)
    \/ \E t \in Submitters : SubmitterRuns(t)
    \/ \E t \in Submitters : Step(t, PushCasSpurious(t))
    \/ \E w \in Workers : WorkerRuns(w)
    \/ \E w \in Workers : Step(w, PopCasSpurious(w))
    \/ PoolDrop
    \/ PoolJoin
    \/ PoolDropQueue

\* Every thread inside a call or a worker loop keeps being scheduled (the OS
\* scheduler starves no runnable thread), and a compare_exchange_weak does
\* not fail spuriously for ever.  Nothing obliges a submitter to call
\* execute again, nor the owner to drop the pool; the thread that has entered
\* drop is scheduled like any other.
PoolFairness ==
    /\ WF_vars(PoolJoin)
    /\ \A t \in Submitters :
          WF_vars(SubmitterRuns(t)) /\ SF_vars(Step(t, PushCas(t)))
    /\ \A w \in Workers :
          WF_vars(WorkerRuns(w)) /\ SF_vars(Step(w, PopCas(w)))

PoolSpec == PoolInit /\ [][PoolNext]_vars /\ PoolFairness

(* --------------------- the pool with panicking jobs ------------------- *)

\* `job()` panics: the worker's thread unwinds out of its closure and ends;
\* the job has not run to completion
WorkerJobPanics(w) ==
    /\ wpc[w] = "job"
    /\ wpc' = [wpc EXCEPT ![w] = "panicked"]
    /\ UNCHANGED <<running, runs, pool, joined>>
    /\ UNCHANGED <<qvars, tvars, hvars, dropped, destroyed, ref, bvars>>

\* `thread.join().unwrap()` of a worker that ended by a panic: join returns
\* Err and unwrap panics in the thread running drop; the workers after it in
\* self.workers are not joined
PoolJoinUnwraps ==
    /\ pool = "joining"
    /\ wpc[NextToJoin] = "panicked"
    /\ joined' = joined \cup {NextToJoin}
    /\ pool' = "panicked"
    /\ UNCHANGED <<running, wpc, runs>>
    /\ UNCHANGED <<qvars, tvars, hvars, dropped, destroyed, ref, bvars>>

PanicNext ==
    \/ PoolNext
    \/ \E w \in Workers : WorkerJobPanics(w)
    \/ PoolJoinUnwraps

PanicSpec == PoolInit /\ [][PanicNext]_vars /\ PoolFairness

(* ---------------- the blocking pool (mutex + channel) ---------------- *)

\* the blocking ThreadPool owns no ArrayQueue
NoQueue ==
    /\ cap = 0
    /\ one_lap = 1
    /\ head = 0
    /\ tail = 0
    /\ stamp = <<>>
    /\ value = <<>>

\* ThreadPool::new(size): mpsc::channel(), the Receiver in an Arc<Mutex<_>>,
\* and size workers spawned, each at the top of its loop
BlockingInit ==
    /\ NoQueue
    /\ NoCalls
    /\ running = FALSE
    /\ wpc = [t \in Threads |-> IF t \in Workers THEN "lock" ELSE "none"]
    /\ runs = [j \in AllJobs |-> 0]
    /\ pool = "live"
    /\ joined = {}
    /\ channel = <<>>
    /\ sender = TRUE
    /\ mutex = NoThread

\* execute(f): `self.sender.as_ref().unwrap().send(job).unwrap()`; the
\* channel is unbounded and a Receiver lives as long as a worker does
BlockingExecute(t) ==
    /\ pool = "live"
    /\ sender
    /\ sent < MaxPush
    /\ channel' = Append(channel, ValueOf(t, sent + 1))
    /\ sent' = sent + 1
    /\ accepted' = accepted \cup {ValueOf(t, sent + 1)}
    /\ UNCHANGED <<popped, dirty, claimedPush, claimedPop, drained, pushedAt,
                   seen>>
    /\ UNCHANGED <<qvars, tvars, pvars, dropped, destroyed, ref, sender, mutex>>

\* `receiver.lock().unwrap()`: returns once the mutex is free
ReceiverLock(w) ==
    /\ wpc[w] = "lock"
    /\ mutex = NoThread
    /\ mutex' = w
    /\ wpc' = [wpc EXCEPT ![w] = "recv"]
    /\ UNCHANGED <<running, runs, pool, joined, channel, sender>>
    /\ UNCHANGED <<qvars, tvars, hvars, dropped, destroyed, ref>>

\* mutant: a closed channel answers Err although jobs are still in it
RecvClosedFirst(w) ==
    /\ wpc[w] = "recv"
    /\ IF ~sender
       THEN /\ ret' = [ret EXCEPT ![w] = <<"Err", NoVal>>]
            /\ channel' = channel
       ELSE /\ channel # <<>>
            /\ ret' = [ret EXCEPT ![w] = <<"Ok", Head(channel)>>]
            /\ channel' = Tail(channel)
    /\ wpc' = [wpc EXCEPT ![w] = "unlock"]
    /\ UNCHANGED <<running, runs, pool, joined, sender, mutex>>
    /\ UNCHANGED <<qvars, pc, pos, arg, hvars, dropped, destroyed, ref>>

\* `.recv()` on the locked Receiver: Ok(job) with the oldest job sent; Err
\* when the channel is empty and the Sender dropped; blocked while it is
\* empty and the Sender alive
Recv(w) ==
    /\ wpc[w] = "recv"
    /\ IF channel # <<>>
       THEN /\ ret' = [ret EXCEPT ![w] = <<"Ok", Head(channel)>>]
            /\ channel' = Tail(channel)
       ELSE /\ ~sender
            /\ ret' = [ret EXCEPT ![w] = <<"Err", NoVal>>]
            /\ channel' = channel
    /\ wpc' = [wpc EXCEPT ![w] = "unlock"]
    /\ UNCHANGED <<running, runs, pool, joined, sender, mutex>>
    /\ UNCHANGED <<qvars, pc, pos, arg, hvars, dropped, destroyed, ref>>

\* mutant: the guard lives as long as the message is matched on, the job
\* included (`match receiver.lock().unwrap().recv() { .. }`)
GuardDropAfterMatch(w) ==
    /\ wpc[w] = "unlock"
    /\ mutex' = IF ret[w][1] = "Ok" THEN mutex ELSE NoThread
    /\ wpc' = [wpc EXCEPT ![w] = IF ret[w][1] = "Ok" THEN "job" ELSE "exit"]
    /\ UNCHANGED <<running, runs, pool, joined, channel, sender>>
    /\ UNCHANGED <<qvars, tvars, hvars, dropped, destroyed, ref>>

\* the end of the `let message = ..;` statement drops the MutexGuard
\* temporary; then `match message`: Ok(job) => the job is invoked,
\* Err(_) => break
GuardDrop(w) ==
    /\ wpc[w] = "unlock"
    /\ mutex' = NoThread
    /\ wpc' = [wpc EXCEPT ![w] = IF ret[w][1] = "Ok" THEN "job" ELSE "exit"]
    /\ UNCHANGED <<running, runs, pool, joined, channel, sender>>
    /\ UNCHANGED <<qvars, tvars, hvars, dropped, destroyed, ref>>

\* `job()` returns, and the worker is back at the top of its loop
BlockingJobDone(w) ==
    /\ wpc[w] = "job"
    /\ runs' = [runs EXCEPT ![ret[w][2]] = @ + 1]
    /\ wpc' = [wpc EXCEPT ![w] = "lock"]
    /\ UNCHANGED <<running, pool, joined, bvars>>
    /\ UNCHANGED <<qvars, tvars, hvars, dropped, destroyed, ref>>

\* Drop for ThreadPool, first statement: `drop(self.sender.take())`
SenderDrop ==
    /\ pool = "live"
    /\ sender' = FALSE
    /\ pool' = "joining"
    /\ UNCHANGED <<running, wpc, runs, joined, channel, mutex>>
    /\ UNCHANGED <<qvars, tvars, hvars, dropped, destroyed, ref>>

\* `worker.thread.join().unwrap()` of the next worker returns once it has
\* exited; after the last one drop returns
BlockingJoin ==
    /\ pool = "joining"
    /\ wpc[NextToJoin] = "exit"
    /\ joined' = joined \cup {NextToJoin}
    /\ pool' = IF joined' = Workers THEN "joined" ELSE "joining"
    /\ UNCHANGED <<running, wpc, runs, bvars>>
    /\ UNCHANGED <<qvars, tvars, hvars, dropped, destroyed, ref>>

BlockingNext ==
    \/ \E t \in Submitters : BlockingExecute(t)
    \/ \E w \in Workers : ReceiverLock(w)
    \/ \E w \in Workers : Recv(w)
    \/ \E w \in Workers : GuardDrop(w)
    \/ \E w \in Workers : BlockingJobDone(w)
    \/ SenderDrop
    \/ BlockingJoin

BlockingSpec == BlockingInit /\ [][BlockingNext]_vars

(* ------------------------- derived quantities ------------------------- *)

Range(f) == {f[i] : i \in DOMAIN f}

\* every value some pop has returned
PoppedSet == UNION {Range(popped[t]) : t \in Threads}

RECURSIVE SumOfLen(_)
SumOfLen(S) ==
    IF S = {} THEN 0
    ELSE LET t == CHOOSE x \in S : TRUE
         IN  Len(popped[t]) + SumOfLen(S \ {t})

\* number of values pops have returned
PoppedCount == SumOfLen(Threads)

\* the distance from h to tl in the jumping position space: cap positions
\* per lap, the indices cap .. one_lap - 1 of a lap being skipped
Dist(h, tl) == ((Lap(tl) - Lap(h)) \div one_lap) * cap + Index(tl) - Index(h)

\* slots holding a value
Stored == {i \in DOMAIN value : value[i] # NoVal}

\* v has been taken by a pop: returned, or read and about to be returned, or
\* in the slot whose position a pop has won and is about to read
TakenByPop(v) ==
    \/ v \in PoppedSet
    \/ \E c \in Consumers : pc[c] = "pop_store" /\ arg[c] = v
    \/ \E c \in Consumers : pc[c] = "pop_read" /\ value[Index(pos[c])] = v

(* ----------------- a call running alone (solo runs) ------------------ *)

\* A thread's call runs alone when every other thread is suspended where it
\* stands: the shared state changes by the call's own steps only.  Its
\* compare-exchange, run alone, succeeds when the position is unchanged.

\* a push whose local tail is the shared tail returns in its solo run: it
\* claims the slot, or finds the queue full
PushSoloAtTail ==
    LET b == PushBranch(tail, stamp[Index(tail)])
    IN  b = "push_cas" \/ (b = "push_head" /\ PushSeesFull(head, tail))

\* a push at the top of its loop with local tail tl returns in its solo run;
\* every failing arm reloads the shared tail
PushSoloFrom(tl) ==
    LET b == PushBranch(tl, stamp[Index(tl)])
    IN  IF b = "push_cas" THEN tl = tail \/ PushSoloAtTail
        ELSE IF b = "push_head" THEN PushSeesFull(head, tl) \/ PushSoloAtTail
        ELSE PushSoloAtTail

\* a pop whose local head is the shared head returns in its solo run
PopSoloAtHead ==
    LET b == PopBranch(head, stamp[Index(head)])
    IN  b = "pop_cas" \/ (b = "pop_tail" /\ PopSeesEmpty(tail, head))

\* a pop at the top of its loop with local head h returns in its solo run
PopSoloFrom(h) ==
    LET b == PopBranch(h, stamp[Index(h)])
    IN  IF b = "pop_cas" THEN h = head \/ PopSoloAtHead
        ELSE IF b = "pop_tail" THEN PopSeesEmpty(tail, h) \/ PopSoloAtHead
        ELSE PopSoloAtHead

\* the call of thread t returns in its solo run from the current state
SoloReturns(t) ==
    CASE pc[t] = "push_stamp" -> PushSoloFrom(pos[t])
      [] pc[t] = "push_cas"   -> pos[t] = tail \/ PushSoloAtTail
      [] pc[t] = "push_head"  -> PushSeesFull(head, pos[t]) \/ PushSoloAtTail
      [] pc[t] = "push_tail"  -> PushSoloAtTail
      [] pc[t] = "pop_stamp"  -> PopSoloFrom(pos[t])
      [] pc[t] = "pop_cas"    -> pos[t] = head \/ PopSoloAtHead
      [] pc[t] = "pop_tail"   -> PopSeesEmpty(tail, pos[t]) \/ PopSoloAtHead
      [] pc[t] = "pop_head"   -> PopSoloAtHead
      [] OTHER                -> TRUE

\* thread u has won its compare-exchange for slot i and has not yet stored
\* the slot's stamp
Publishing(u, i) ==
    /\ pc[u] \in {"push_write", "push_store", "pop_read", "pop_store"}
    /\ Index(pos[u]) = i

\* the slots of the buffer
Slots == 0 .. cap - 1

\* the value written by the push that claimed position p, if any has
PushedAt(p) ==
    IF \E pr \in pushedAt : pr[1] = p
    THEN (CHOOSE pr \in pushedAt : pr[1] = p)[2]
    ELSE NoVal

\* st is the stamp of slot i empty for some lap: L | i
EmptyStamp(i, st) == Index(st) = i

\* st is the stamp of slot i full for some lap: (L | i) + 1
FullStamp(i, st) == st >= 1 /\ Index(st - 1) = i /\ Lap(st - 1) = Lap(st)

\* the distance from h to tl in claimed positions, laps counted modulo the
\* word
ModDist(h, tl) ==
    (((Lap(tl) - Lap(h)) % Word) \div one_lap) * cap + Index(tl) - Index(h)

\* q is the position one step after p: the next index of the same lap, or,
\* from the last slot, index 0 of the next lap (lap 0 after the last lap of
\* the word)
OneStep(p, q) ==
    IF Index(p) < cap - 1
    THEN q = p + 1 /\ Lap(q) = Lap(p)
    ELSE Index(q) = 0 /\ Lap(q) = (Lap(p) + one_lap) % Word

(* ------------------------------ claims -------------------------------- *)

\* C1 (no duplication): every value a pop has returned was passed to a push
\* that returned Ok, and no value is returned by two pops (of one thread or
\* of two).
C1_NoDuplication ==
    /\ PoppedSet \subseteq accepted
    /\ \A t1, t2 \in Threads :
          \A i \in DOMAIN popped[t1] : \A j \in DOMAIN popped[t2] :
             popped[t1][i] = popped[t2][j] => (t1 = t2 /\ i = j)

\* both consumers have popped, and the ring has wrapped
C1_Witness ==
    /\ \A c \in Consumers : Len(popped[c]) >= 1
    /\ PoppedCount = MaxPush
    /\ tail >= one_lap

\* C2 (no loss): once the producers have finished, a pop has returned None
\* and no call is in progress, the values popped are exactly the values
\* whose push returned Ok, each once.
C2_NoLoss ==
    (drained /\ \A t \in Threads : pc[t] = "idle")
        => (PoppedSet = accepted /\ PoppedCount = Cardinality(accepted))

\* drained after the full budget of pushes, one of them refused
C2_Witness ==
    /\ drained
    /\ \A t \in Threads : pc[t] = "idle"
    /\ Cardinality(accepted) = MaxPush - 1
    /\ \E p \in Producers : ret[p][1] = "Err"

\* C3 (capacity bound): the positions claimed by pushes and not yet claimed
\* by pops number the distance from head to tail in the jumping position
\* space, which lies in 0 .. cap.
C3_CapacityBound ==
    /\ claimedPush - claimedPop = Dist(head, tail)
    /\ Dist(head, tail) \in 0 .. cap
    /\ Index(head) < cap
    /\ Index(tail) < cap

\* full again after a pop, on the second lap
C3_Witness ==
    /\ claimedPush - claimedPop = cap
    /\ claimedPop >= 1
    /\ Lap(tail) > Lap(head)

\* C4 (FIFO per producer): of two values of one producer popped by one
\* consumer, the one pushed first is popped first.
C4_FifoPerProducer ==
    \A c \in Threads : \A i, j \in DOMAIN popped[c] :
        (i < j /\ ProducerOf(popped[c][i]) = ProducerOf(popped[c][j]))
            => SeqNoOf(popped[c][i]) < SeqNoOf(popped[c][j])

\* a consumer has popped two values of one producer while the other producer
\* and the other consumer were at work too
C4_Witness ==
    \E c, d \in Consumers :
        /\ c # d
        /\ Len(popped[c]) >= 2
        /\ ProducerOf(popped[c][1]) = ProducerOf(popped[c][2])
        /\ Len(popped[d]) >= 1
        /\ ProducerOf(popped[d][1]) # ProducerOf(popped[c][1])

\* C5 (push refuses only a full queue): the step of a push that loads head
\* and returns Err(v) is taken with head + one_lap = tail in the shared
\* state, and v is the value the call was given.
C5_ErrOnlyWhenFull ==
    [][\A t \in Producers :
          (pc[t] = "push_head" /\ pc'[t] = "idle")
              => /\ ret'[t] = <<"Err", arg[t]>>
                 /\ wrapping_add(head, one_lap) = tail
                 /\ claimedPush - claimedPop = cap]_vars

\* a push has been refused
C5_Witness ==
    \E t \in Producers :
        pc[t] = "idle" /\ ret[t][1] = "Err" /\ ret[t][2] = arg[t]
            /\ ret[t][2] # NoVal

\* C6 (pop returns None only on an empty queue): the step of a pop that
\* loads tail and returns None is taken with head = tail in the shared
\* state, when every value whose push has returned Ok has been taken by a
\* pop.
C6_NoneOnlyWhenEmpty ==
    [][\A t \in Consumers :
          (pc[t] = "pop_tail" /\ pc'[t] = "idle")
              => /\ ret'[t][1] = "None"
                 /\ head = tail
                 /\ \A v \in accepted : TakenByPop(v)]_vars

\* a pop has returned None after values went through the queue
C6_Witness ==
    \E t \in Consumers :
        pc[t] = "idle" /\ ret[t][1] = "None" /\ accepted # {}

\* C7 (failed operations have no side effects): a call that returned Err or
\* None has written neither head, tail, a stamp nor a slot's value.
C7_FailedCallsWriteNothing ==
    \A t \in Threads :
        (pc[t] = "idle" /\ ret[t][1] \in {"Err", "None"}) => ~dirty[t]

\* a refused push and an empty pop
C7_Witness ==
    /\ \E t \in Producers : pc[t] = "idle" /\ ret[t][1] = "Err"
    /\ \E t \in Consumers : pc[t] = "idle" /\ ret[t][1] = "None"

\* C8 (sequential equivalence to a bounded FIFO): for every capacity in
\* 1 .. MaxCap, each of a sequence of non-overlapping calls returns what the
\* reference FIFO of that capacity returns (Ok iff fewer than cap values are
\* stored, else Err with the value; the oldest value, else None), and no call
\* ever waits in a reload arm of its loop.
C8_SequentialFifo ==
    [][/\ pc'[SeqThread] \notin {"push_tail", "pop_head"}
       /\ Returns(SeqThread) =>
             ret'[SeqThread] = IF InPush(SeqThread)
                               THEN RefPush(ref, arg[SeqThread])
                               ELSE RefPop(ref)]_vars

\* capacity 3 (not a power of two, one_lap = 4): a pop returns the oldest of
\* three values from a full queue on a later lap of the ring
C8_Witness ==
    /\ cap = 3
    /\ one_lap = 4
    /\ pc[SeqThread] = "idle"
    /\ ret[SeqThread] = <<"Some", 2>>
    /\ ref = <<1, 1>>
    /\ head > 2 * one_lap

\* C9 (drop completeness): dropped with no call in progress, after any
\* sequence of pushes and pops, drop destroys exactly the slots holding a
\* value, each once, and the length it computes is the number of values
\* stored.
C9_DropComplete ==
    dropped =>
        /\ Range(destroyed) = Stored
        /\ Len(destroyed) = Cardinality(Stored)
        /\ DropLen(head, tail) = Len(ref)

\* dropped with the head index above the tail index (wrapped) on a later
\* lap, two of three slots holding a value
C9_Witness ==
    /\ dropped
    /\ cap = 3
    /\ Index(head) > Index(tail)
    /\ head > one_lap
    /\ Len(destroyed) = 2

\* C10 (pool liveness): as long as the pool is not dropped, every job whose
\* execute returned Ok is eventually run to completion (again and again, a
\* state comes where every job accepted so far has been run), and no job is
\* ever run more than once.
C10_PoolLiveness ==
    /\ []<>(pool # "live" \/ \A j \in accepted : runs[j] = 1)
    /\ [](\A j \in AllJobs : runs[j] <= 1)

\* more jobs than workers: all MaxPush jobs were accepted and have been run,
\* the pool still live
C10_Witness ==
    /\ pool = "live"
    /\ Cardinality(accepted) = MaxPush
    /\ MaxPush > Cardinality(Workers)
    /\ \A j \in accepted : runs[j] = 1

\* the jobs whose execute has returned Err(())
Refused ==
    {j \in AllJobs :
        /\ ProducerOf(j) \in Submitters
        /\ SeqNoOf(j) \in 1 .. sent
        /\ j \notin accepted
        /\ \A t \in Submitters : pc[t] = "idle" \/ arg[t] # j}

\* C11 (lock-free pool submit): execute returns Err(()) exactly when the
\* push inside it was refused, which happens in the step that loads head and
\* finds head + one_lap = tail (the queue full); a push that finds the queue
\* full returns in that very step instead of waiting for room; the call has
\* then written nothing to the queue, and a refused job is in no slot, in no
\* worker's hands, and is never run.
C11_ExecuteRefusal ==
    /\ [][\A t \in Submitters :
            /\ Returns(t) =>
                  ((ExecuteResult(ret'[t]) = "Err")
                      <=> (pc[t] = "push_head"
                             /\ wrapping_add(head, one_lap) = tail))
            /\ (Returns(t) /\ ExecuteResult(ret'[t]) = "Err") => ~dirty'[t]
            /\ (Returns(t) /\ ExecuteResult(ret'[t]) = "Ok") =>
                  (pc[t] = "push_store" /\ arg[t] \in accepted')
            /\ (pc[t] = "push_head" /\ pc'[t] # "push_head"
                   /\ wrapping_add(head, one_lap) = pos[t]) => Returns(t)]_vars
    /\ [](\A j \in Refused :
            /\ runs[j] = 0
            /\ j \notin Range(value)
            /\ j \notin PoppedSet
            /\ \A w \in Workers : arg[w] # j)

\* a job has been refused by a full queue; the jobs accepted before it have
\* since been run and every worker has exited
C11_Witness ==
    /\ pool = "joined"
    /\ Refused # {}
    /\ Cardinality(accepted) = Cap
    /\ \A k \in accepted : runs[k] = 1

\* C12 (lock-free pool shutdown): from its first statement on, drop has set
\* running to false; it joins only workers that have exited and returns only
\* when all have; a worker leaves a job it has started only by the job's
\* return, so that when drop returns no job is executing and every job a
\* worker took has run to completion, once; and, every job terminating,
\* a drop that has begun returns.
C12_PoolShutdown ==
    /\ [](pool \in {"joining", "joined"} => ~running)
    /\ [](\A w \in joined : wpc[w] = "exit")
    /\ [](pool = "joined" =>
            /\ \A w \in Workers : wpc[w] = "exit" /\ pc[w] = "idle"
            /\ \A j \in PoppedSet : runs[j] = 1)
    /\ [][\A w \in Workers :
            (wpc[w] = "job" /\ wpc'[w] # "job") =>
                (runs'[ret[w][2]] = runs[ret[w][2]] + 1 /\ wpc'[w] = "check")]_vars
    /\ (pool = "joining") ~> (pool = "joined")

\* drop has returned; the last thing each worker did before it saw running
\* false was to run a job to its end
C12_Witness ==
    /\ pool = "joined"
    /\ \A w \in Workers : ret[w][1] = "Some" /\ runs[ret[w][2]] = 1

\* C13 (blocking pool shutdown drains): a worker leaves its loop only when
\* the channel is empty and the Sender dropped, and no job a worker received
\* is left unrun when it does; so when drop returns every job execute sent
\* before drop began has been run to completion, once.
C13_BlockingDrains ==
    /\ \A w \in Workers :
          wpc[w] = "exit" => (channel = <<>> /\ ~sender /\ pool # "live")
    /\ pool = "joined" =>
          /\ \A w \in Workers : wpc[w] = "exit"
          /\ \A j \in accepted : runs[j] = 1
          /\ accepted = {j \in AllJobs : ProducerOf(j) \in Submitters
                                           /\ SeqNoOf(j) \in 1 .. sent}

\* drop has returned after more jobs than there are workers were sent, and
\* all of them have been run
C13_Witness ==
    /\ pool = "joined"
    /\ sent = MaxPush
    /\ MaxPush > Cardinality(Workers)
    /\ \A j \in accepted : runs[j] = 1

\* C14 (blocking pool, no lock across a job): a worker executing a job does
\* not hold the receiver mutex; the mutex is held only by a worker inside
\* its receive statement; a job a worker has received is in the hands of
\* that worker alone, no longer in the channel, and is run at most once.
C14_NoLockAcrossJob ==
    /\ \A w \in Workers : wpc[w] = "job" => mutex # w
    /\ mutex # NoThread => (mutex \in Workers /\ wpc[mutex] \in {"recv", "unlock"})
    /\ \A w \in Workers : wpc[w] \in {"recv", "unlock"} => mutex = w
    /\ \A w \in Workers :
          (wpc[w] = "job" \/ (wpc[w] = "unlock" /\ ret[w][1] = "Ok")) =>
              /\ ret[w][2] \in accepted
              /\ runs[ret[w][2]] = 0
              /\ ret[w][2] \notin Range(channel)
              /\ \A x \in Workers \ {w} :
                    ~(wpc[x] \in {"job", "unlock"} /\ ret[x] = ret[w])
    /\ \A j \in AllJobs : runs[j] <= 1

\* with 2 workers, the second job sent has been received and run to its end
\* while the first is still executing
C14_Witness ==
    \E w \in Workers :
        /\ wpc[w] = "job"
        /\ ret[w][2] = ValueOf(1, 1)
        /\ runs[ValueOf(1, 2)] = 1

\* the jobs the queue's drop has destroyed, in order
DestroyedJobs == [i \in DOMAIN destroyed |-> value[destroyed[i]]]

\* C15 (residual jobs at lock-free pool shutdown): a job accepted before
\* drop may never be invoked.  Once the workers are joined each accepted job
\* either has been run, once, or is still in the queue, unrun and in no
\* worker's hands; the queue's drop then destroys exactly the latter, each
\* once, their closures not having run.  (That such a job exists in some
\* execution is the state C15_Witness.)
C15_ResidualJobs ==
    /\ pool = "joined" =>
          \A j \in accepted :
              \/ runs[j] = 1 /\ j \notin Range(value)
              \/ runs[j] = 0 /\ j \in Range(value)
    /\ dropped =>
          /\ pool = "joined"
          /\ Range(DestroyedJobs) = {j \in accepted : runs[j] = 0}
          /\ Len(DestroyedJobs) = Cardinality(Range(DestroyedJobs))

\* execute returned Ok for a job, drop began, every worker saw running false
\* and exited, drop returned, and the queue's drop destroyed the job unrun
C15_Witness ==
    /\ dropped
    /\ pool = "joined"
    /\ \A w \in Workers : wpc[w] = "exit"
    /\ \E j \in accepted : runs[j] = 0 /\ j \in Range(DestroyedJobs)

\* C16 as stated (push and pop never block): whatever the other threads do,
\* and wherever they are suspended, a call in progress returns through the
\* calling thread's own steps.
C16_NeverWaits ==
    \A t \in Threads : pc[t] # "idle" => SoloReturns(t)

\* C16 (amended): a call in progress fails to return through its own steps
\* only while another thread stands between its winning compare-exchange and
\* its stamp store on the very slot the call needs (the slot of the shared
\* tail for a push, of the shared head for a pop); the call then spins,
\* reloading, until that store.
C16_WaitsOnlyForPublisher ==
    \A t \in Threads :
        (pc[t] # "idle" /\ ~SoloReturns(t)) =>
            \E u \in Threads \ {t} :
                Publishing(u, Index(IF InPush(t) THEN tail ELSE head))

\* a pop spins on the empty stamp of the slot a producer has claimed and
\* not yet written, and a push spins on the slot of the lap before, claimed
\* by another producer that has not yet stored its stamp
C16_Witness ==
    \E t \in Consumers, p \in Producers, u \in Producers :
        /\ pc[t] = "pop_head" /\ ~SoloReturns(t)
        /\ pc[p] = "push_tail" /\ ~SoloReturns(p)
        /\ pc[u] \in {"push_write", "push_store"}
        /\ Index(pos[u]) = Index(head)
        /\ Index(pos[u]) = Index(tail)

\* C17 (slot stamp protocol): slot i starts with stamp i; in every state its
\* stamp is L | i (empty) or (L | i) + 1 (full) for a lap L, never both; and
\* a stamp changes only from L | i to (L | i) + 1, stored by the push that
\* claimed tail = L | i, or from (L | i) + 1 to (L + one_lap) | i, stored by
\* the pop that claimed head = L | i.
C17_StampProtocol ==
    /\ \A i \in Slots : stamp[i] = i
    /\ [](\A i \in Slots :
            /\ EmptyStamp(i, stamp[i]) \/ FullStamp(i, stamp[i])
            /\ ~(EmptyStamp(i, stamp[i]) /\ FullStamp(i, stamp[i])))
    /\ [][\A i \in Slots :
            stamp'[i] # stamp[i] =>
                \E t \in Threads :
                    /\ Index(pos[t]) = i
                    /\ \A u \in Threads \ {t} : ~Publishing(u, i)
                    /\ \/ /\ pc[t] = "push_store"
                          /\ stamp[i] = pos[t]
                          /\ EmptyStamp(i, stamp[i])
                          /\ stamp'[i] = stamp[i] + 1
                          /\ FullStamp(i, stamp'[i])
                       \/ /\ pc[t] = "pop_store"
                          /\ stamp[i] = pos[t] + 1
                          /\ FullStamp(i, stamp[i])
                          /\ stamp'[i] = wrapping_add(Lap(pos[t]), one_lap) + i
                          /\ EmptyStamp(i, stamp'[i])]_vars

\* a slot has gone through empty, full and empty again and is full on its
\* second lap, while the other slot is empty
C17_Witness ==
    \E i, k \in Slots :
        /\ stamp[i] = one_lap + i + 1
        /\ FullStamp(i, stamp[i])
        /\ EmptyStamp(k, stamp[k])
        /\ k # i

\* C18 (position invariant): the index part of head, of tail and of every
\* position a call addresses the buffer with is below cap; head and tail
\* change only by the compare-exchange of a call whose local position they
\* equal, by exactly one step, forward (never back, but for the lap counter
\* wrapping to zero after the last lap of the word: non-decreasing modulo
\* the word); and head never passes tail: counted in positions, tail is
\* between 0 and cap ahead of head.
C18_Positions ==
    /\ [](/\ Index(head) \in Slots
          /\ Index(tail) \in Slots
          /\ \A t \in Threads : Index(pos[t]) \in Slots
          /\ ModDist(head, tail) \in 0 .. cap)
    /\ [][/\ tail' # tail =>
               /\ \E t \in Threads : pc[t] = "push_cas" /\ pos[t] = tail
                                       /\ pc'[t] = "push_write"
               /\ OneStep(tail, tail')
               /\ tail' > tail \/ (Lap(tail) = Word - one_lap /\ tail' = 0)
               /\ ModDist(head', tail') = ModDist(head, tail) + 1
          /\ head' # head =>
               /\ \E t \in Threads : pc[t] = "pop_cas" /\ pos[t] = head
                                       /\ pc'[t] = "pop_read"
               /\ OneStep(head, head')
               /\ head' > head \/ (Lap(head) = Word - one_lap /\ head' = 0)
               /\ ModDist(head', tail') = ModDist(head, tail) - 1]_vars

\* the tail has wrapped to lap 0 while the head is still on the last lap of
\* the word, a pop having advanced it from the last slot's neighbour
C18_Witness ==
    /\ Lap(tail) = 0
    /\ Lap(head) = Word - one_lap
    /\ Index(head) = cap - 1
    /\ tail < head
    /\ ModDist(head, tail) = 1

\* C19 (exclusive slot access): the push that has won the compare-exchange
\* on tail finds the slot holding no value and is the only thread between a
\* winning compare-exchange and a stamp store on that slot, until it has
\* stored the stamp; the pop that has won the compare-exchange on head finds
\* in the slot, with the stamp of its position, the value written by the push
\* that claimed that position, is likewise alone on the slot, and returns
\* that value.
C19_ExclusiveSlot ==
    \A t \in Threads :
        LET i == Index(pos[t])
            alone == \A u \in Threads \ {t} : ~Publishing(u, i)
        IN  /\ pc[t] = "push_write" =>
                  (alone /\ value[i] = NoVal /\ stamp[i] = pos[t])
            /\ pc[t] = "push_store" =>
                  (alone /\ value[i] = arg[t] /\ stamp[i] = pos[t]
                         /\ PushedAt(pos[t]) = arg[t])
            /\ pc[t] = "pop_read" =>
                  (alone /\ value[i] # NoVal /\ stamp[i] = pos[t] + 1
                         /\ value[i] = PushedAt(pos[t]))
            /\ pc[t] = "pop_store" =>
                  (alone /\ value[i] = NoVal /\ stamp[i] = pos[t] + 1
                         /\ arg[t] # NoVal /\ arg[t] = PushedAt(pos[t]))
            /\ (pc[t] = "idle" /\ ret[t][1] = "Some") =>
                  (ret[t][2] # NoVal /\ ret[t][2] = PushedAt(pos[t]))

\* after the lap has wrapped to zero, a pop is about to read from slot 0 what
\* the third push wrote there, while the other consumer is still inside its
\* pop of slot 1 on the last lap of the word
C19_Witness ==
    \E t, u \in Consumers :
        /\ pc[t] = "pop_read"
        /\ pos[t] = 0
        /\ value[0] = PushedAt(0)
        /\ PushedAt(Word - one_lap) \notin {NoVal, PushedAt(0)}
        /\ pc[u] \in {"pop_read", "pop_store"}
        /\ pos[u] = Word - one_lap + 1

\* C20 (is_empty and is_full under concurrency): a call of is_empty that
\* returns true had head = tail at some instant between its two loads, and
\* a call of is_full that returns true had head + one_lap = tail at some
\* such instant; a call during which no other thread was inside a push or a
\* pop returns true exactly when zero values (is_empty), cap values
\* (is_full) are stored.
C20_Observers ==
    [][\A o \in Observers :
          Returns(o) =>
             /\ ret'[o][1] = "Empty" => seen[o].empty
             /\ ret'[o][1] = "Full" => seen[o].full
             /\ (~seen[o].busy /\ pc[o] = "empty_second") =>
                   (ret'[o][1] = "Empty" <=> Cardinality(Stored) = 0)
             /\ (~seen[o].busy /\ pc[o] = "full_second") =>
                   (ret'[o][1] = "Full" <=> Cardinality(Stored) = cap)]_vars

\* is_full has returned true beside a push or a pop in progress, after a pop
\* had advanced the head: the queue was full, and never empty, at an instant
\* of the call
C20_Witness ==
    \E o \in Observers :
        /\ pc[o] = "idle"
        /\ ret[o][1] = "Full"
        /\ seen[o].busy
        /\ seen[o].full
        /\ ~seen[o].empty
        /\ head > 0

\* C21 (termination of the retry loops): with the MaxPush push calls and any
\* number of pop calls of 2 producers and 2 consumers, every thread fairly
\* scheduled, every call returns (each thread is again and again outside a
\* call); and in no state is every call in flight unable to complete: some
\* thread in a call would return running alone.
C21_CallsReturn ==
    /\ \A t \in Producers \cup Consumers : []<>(pc[t] = "idle")
    /\ []((\E t \in Threads : pc[t] # "idle") =>
             \E t \in Threads : pc[t] # "idle" /\ SoloReturns(t))

\* two calls spin on slots other threads have claimed and not yet released,
\* and only the claiming threads can complete
C21_Witness ==
    /\ \A t \in Producers \cup Consumers : pc[t] # "idle"
    /\ Cardinality({t \in Threads : pc[t] # "idle" /\ ~SoloReturns(t)}) = 2
    /\ \E t \in Producers : pc[t] = "push_tail" /\ ~SoloReturns(t)
    /\ \E t \in Consumers : pc[t] = "pop_head" /\ ~SoloReturns(t)

\* C22 (bounded work after the shutdown signal): once running is false, a
\* worker at its loop condition never pops or runs a job again, and a worker
\* running a job (the one further job a worker that had passed the loop
\* condition before the store can still pop) never pops again and goes on to
\* exit; so each worker starts at most one job after the store.
C22_BoundedWork ==
    \A w \in Workers :
        /\ [](~running /\ wpc[w] = "check"
                => [](wpc[w] \in {"check", "exit"}))
        /\ [](~running /\ wpc[w] = "job"
                => [](wpc[w] \in {"job", "check", "exit"}))
        /\ (~running /\ wpc[w] = "job") ~> (wpc[w] = "exit")

\* after the store one worker has left its loop while another, which had
\* passed the loop condition before the store, has popped a job it is about
\* to invoke
C22_Witness ==
    /\ ~running
    /\ \E w, x \in Workers :
          /\ wpc[x] = "exit"
          /\ wpc[w] = "popping"
          /\ pc[w] = "idle"
          /\ ret[w][1] = "Some"

\* the workers a panic has not ended
Remaining == {w \in Workers : wpc[w] # "panicked"}

\* C23 (panic isolation), as claimed: the panic of a job never reaches the
\* thread that submits to the pool and owns it, and the step in which a job
\* panics ends its worker and touches nothing else: not the queue, not the
\* signal, not the other workers, which go on as before.
C23_PanicIsolated ==
    /\ [](pool # "panicked")
    /\ [][\A w \in Workers :
             (wpc[w] # "panicked" /\ wpc'[w] = "panicked") =>
                /\ wpc[w] = "job"
                /\ \A x \in Workers \ {w} : wpc'[x] = wpc[x]
                /\ UNCHANGED <<running, pool, runs, qvars, tvars, ret>>]_vars

\* a job has panicked and ended its worker; the other worker has since run
\* the other accepted jobs, and the pool is still live
C23_Witness ==
    /\ pool = "live"
    /\ Cardinality(Remaining) = 1
    /\ Cardinality(accepted) = MaxPush
    /\ Cardinality({j \in accepted : runs[j] = 1}) = MaxPush - 1

\* the n-th position claimed from the start of the last lap of the word,
\* counted without overflow (in the naturals)
Unbounded(n) == (Word - one_lap) + (n \div cap) * one_lap + (n % cap)

\* the natural number the word p stands for in a run that starts on the last
\* lap of the word and claims fewer positions than the word holds
Unwrapped(p) == IF p >= Word - one_lap THEN p ELSE p + Word

\* the position the push of v wrote at
PositionOf(v) == (CHOOSE pr \in pushedAt : pr[2] = v)[1]

\* C24 (lap wraparound): in runs that start on the last lap of the word and
\* go on after the lap counter has wrapped to zero, tail + 1 and head + 1
\* never overflow; head and tail are the positions counted without overflow,
\* reduced modulo the word, and between 0 and cap apart; the full test, the
\* empty test and the stamp comparisons of the calls in progress answer as
\* the same comparisons on the unreduced numbers; the stamps stored are the
\* unreduced tail + 1 and head + one_lap reduced; and each consumer's pops
\* return values in the order of the unreduced positions they were pushed at.
C24_LapWraparound ==
    /\ [](/\ head + 1 < Word
          /\ tail + 1 < Word
          /\ \A t \in Threads : pos[t] + 1 < Word
          /\ tail = Unbounded(claimedPush) % Word
          /\ head = Unbounded(claimedPop) % Word
          /\ Unwrapped(tail) = Unbounded(claimedPush)
          /\ Unwrapped(head) = Unbounded(claimedPop)
          /\ claimedPush - claimedPop \in 0 .. cap
          /\ PushSeesFull(head, tail) <=>
                Unbounded(claimedPop) + one_lap = Unbounded(claimedPush)
          /\ PopSeesEmpty(tail, head) <=>
                Unbounded(claimedPush) = Unbounded(claimedPop)
          /\ \A t \in Threads :
                LET st == stamp[Index(pos[t])]
                IN  /\ pc[t] = "push_stamp" =>
                          /\ (pos[t] = st) <=> (Unwrapped(pos[t]) = Unwrapped(st))
                          /\ (wrapping_add(st, one_lap) = pos[t] + 1) <=>
                                (Unwrapped(st) + one_lap = Unwrapped(pos[t]) + 1)
                    /\ pc[t] = "push_head" =>
                          (PushSeesFull(head, pos[t]) <=>
                              Unwrapped(head) + one_lap = Unwrapped(pos[t]))
                    /\ pc[t] = "pop_stamp" =>
                          /\ (pos[t] + 1 = st) <=>
                                (Unwrapped(pos[t]) + 1 = Unwrapped(st))
                          /\ (st = pos[t]) <=> (Unwrapped(st) = Unwrapped(pos[t]))
          /\ \A c \in Consumers : \A i, j \in DOMAIN popped[c] :
                i < j => Unwrapped(PositionOf(popped[c][i]))
                            < Unwrapped(PositionOf(popped[c][j])))
    /\ [][\A t \in Threads :
            LET i == Index(pos[t])
            IN  /\ (pc[t] = "push_store" /\ pc'[t] = "idle") =>
                      Unwrapped(stamp'[i]) = Unwrapped(pos[t]) + 1
                /\ (pc[t] = "pop_store" /\ pc'[t] = "idle") =>
                      Unwrapped(stamp'[i]) = Unwrapped(pos[t]) + one_lap]_vars

\* the queue was found full across the wrap (head on the last lap, tail on
\* lap 0) by a push that was refused, and both values have since been popped:
\* head and tail are on lap 0
C24_Witness ==
    /\ \E t \in Producers : pc[t] = "idle" /\ ret[t][1] = "Err"
    /\ claimedPush = Cap
    /\ claimedPop = Cap
    /\ head = 0
    /\ tail = 0
    /\ \A t \in Threads : pc[t] = "idle"
    /\ stamp[Cap - 1] = Cap - 1
    /\ Unwrapped(stamp[Cap - 1]) = Word + Cap - 1

====
